---- MODULE Spec2Model ----
(***************************************************************************)
(* Model of the token buyer bot: the Solana flow (index.js main, the       *)
(* Jupiter swap executor of jupiter.js, the anti-scam engine of            *)
(* antiscam.js) and the BSC one-shot flow (processToken, executeBuy).      *)
(*                                                                         *)
(* Text is modelled as a sequence of words, so that String.includes is a   *)
(* search for a contiguous run of words.  Amounts are integers; BigInt     *)
(* division truncates toward zero (TruncDiv).  Percentages that the code   *)
(* computes as Number(x) / 100 are kept as the integer x (hundredths of a  *)
(* percent); the thresholds they are compared with are scaled alike.       *)
(***************************************************************************)
EXTENDS Integers, Sequences, FiniteSets, TLC

VARIABLES
    venue,          \* which program or function runs: "solana", "bsc", "zerox",
                    \* "risk", "parse", "slippage", "retry"
    pc,             \* position of main()
    exitCode,       \* argument of process.exit, NoExit while running
    skipConfirm,    \* --yes / -y
    isDryRun,       \* --dry-run
    isTTY,          \* process.stdin.isTTY
    priorityFee,    \* config.priorityFee
    buyRetries,     \* config.buyRetries of the BSC flow
    feeData,        \* the network gas price and what provider.getFeeData() does
    gasSettings,    \* gasSettings of the BSC main(), undefined before
    slippagePercent, \* config.slippagePercent, in thousandths of a percent
    retries,        \* opts.retries of a withRetry call
    answer,         \* what was typed at "Proceed with swap?", NoAnswer before
    networkFees,    \* result of estimatePriorityFee
    scamInput,      \* what runAntiScamChecks reads (token, quote, sell reply)
    scamResult,     \* what runAntiScamChecks returned
    quoteResponse,  \* outAmount of the quote in use, NoQuote before
    quoteTimestamp, \* Date.now() when quoteResponse was received
    now,            \* Date.now()
    attempt,        \* executeSwap / executeBuy loop variable
    currentFee,     \* executeSwap currentFee
    postTry,        \* withRetry attempt of the swap-build POST
    builds,         \* swap bodies posted to Jupiter (settled calls of fn in
                    \* withRetry), in order
    txs,            \* transactions handed to the chain, in order
    timer,          \* TRUE while the confirmation timeout timer is pending
    swapErr,        \* error caught by / thrown from the executor
    result          \* value returned by the executor

vars == << venue, pc, exitCode, skipConfirm, isDryRun, isTTY, priorityFee,
           buyRetries, feeData, gasSettings, slippagePercent, retries, answer,
           networkFees, scamInput, scamResult, quoteResponse, quoteTimestamp,
           now, attempt, currentFee, postTry, builds, txs, timer, swapErr,
           result >>

----------------------------------------------------------------------------
(* Text helpers *)

\* String.prototype.includes on word sequences
Includes(text, needle) ==
    \E i \in 1..(Len(text) - Len(needle) + 1) :
        SubSeq(text, i, i + Len(needle) - 1) = needle

\* BigInt division: truncates toward zero
TruncDiv(a, b) ==
    IF a >= 0 THEN a \div b ELSE -((-a) \div b)

\* n copies of byte b
Bytes(b, n) == [i \in 1..n |-> b]

\* the least element of a non-empty set of integers
Least(S) == CHOOSE x \in S : \A y \in S : x <= y

----------------------------------------------------------------------------
(* antiscam.js: Token-2022 extensions.  A Buffer is a sequence of bytes;  *)
(* JavaScript index i is TLA+ index i + 1.  A missing buffer is << >>.     *)

EXT_TRANSFER_FEE_CONFIG == 1
EXT_NON_TRANSFERABLE == 9
EXT_PERMANENT_DELEGATE == 12
EXT_TRANSFER_HOOK == 14

\* Buffer.readUInt16LE(off)
readUInt16LE(data, off) == data[off + 1] + 256 * data[off + 2]

RECURSIVE readUIntLE(_, _, _)
\* Buffer.readBigUInt64LE(off) is readUIntLE(data, off, 8)
readUIntLE(data, off, n) ==
    IF n = 0 THEN 0 ELSE data[off + 1] + 256 * readUIntLE(data, off + 1, n - 1)

RECURSIVE ParseLoopKeepPartial(_, _)
\* the loop keeping what is present of an entry that runs past the end
ParseLoopKeepPartial(data, offset) ==
    IF offset + 4 > Len(data) THEN << >>
    ELSE LET type == readUInt16LE(data, offset)
             length == readUInt16LE(data, offset + 2)
             start == offset + 4
         IN  IF start + length > Len(data)
             THEN << [type |-> type, data |-> SubSeq(data, start + 1, Len(data))] >>
             ELSE << [type |-> type,
                      data |-> SubSeq(data, start + 1, start + length)] >>
                  \o ParseLoopKeepPartial(data, start + length)

RECURSIVE ParseLoop(_, _)
\* the while loop of parseToken2022Extensions, from offset on
ParseLoop(data, offset) ==
    IF offset + 4 > Len(data) THEN << >>
    ELSE LET type == readUInt16LE(data, offset)
             length == readUInt16LE(data, offset + 2)
             start == offset + 4
         IN  IF start + length > Len(data) THEN << >>
             ELSE << [type |-> type,
                      data |-> SubSeq(data, start + 1, start + length)] >>
                  \o ParseLoop(data, start + length)

parseToken2022Extensions(data) ==
    IF Len(data) <= 83 THEN << >>
    ELSE IF data[83] # 2 THEN << >>
    ELSE ParseLoop(data, 83)

NoExt == [type |-> -1, data |-> << >>]

\* Array.prototype.find by extension type; NoExt for undefined
FindExt(extensions, t) ==
    LET hits == { i \in 1..Len(extensions) : extensions[i].type = t }
    IN  IF hits = {} THEN NoExt ELSE extensions[Least(hits)]

\* null is [found |-> FALSE]
checkTransferFee(extensions) ==
    LET ext == FindExt(extensions, EXT_TRANSFER_FEE_CONFIG)
    IN  IF ext = NoExt \/ Len(ext.data) < 108
        THEN [found |-> FALSE, hasTransferFee |-> FALSE, feeBps |-> 0, maxFee |-> 0]
        ELSE LET feeBps == readUInt16LE(ext.data, 106)
             IN  [found |-> TRUE, hasTransferFee |-> feeBps > 0,
                  feeBps |-> feeBps, maxFee |-> readUIntLE(ext.data, 98, 8)]

\* PublicKey.default is 32 zero bytes
IsDefaultKey(bytes) == \A i \in 1..32 : bytes[i] = 0

\* TRUE when checkPermanentDelegate returns an object, FALSE for null
checkPermanentDelegate(extensions) ==
    LET ext == FindExt(extensions, EXT_PERMANENT_DELEGATE)
    IN  /\ ext # NoExt
        /\ Len(ext.data) >= 32
        /\ ~IsDefaultKey(SubSeq(ext.data, 1, 32))

checkNonTransferable(extensions) ==
    \E i \in 1..Len(extensions) : extensions[i].type = EXT_NON_TRANSFERABLE

\* TRUE when checkTransferHook returns an object, FALSE for null
checkTransferHook(extensions) ==
    LET ext == FindExt(extensions, EXT_TRANSFER_HOOK)
    IN  /\ ext # NoExt
        /\ Len(ext.data) >= 32
        /\ ~IsDefaultKey(SubSeq(ext.data, 1, 32))

----------------------------------------------------------------------------
(* antiscam.js: checkHoneypot.  The reply of the sell-quote request is    *)
(*   [kind |-> "throw", message |-> words]   withRetry rejected            *)
(*   [kind |-> "nodata"]                     response without data         *)
(*   [kind |-> "data", outAmount |-> v]      v being one of                *)
(*       [t |-> "undef"]  the field is missing                             *)
(*       [t |-> "empty"]  the empty string                                 *)
(*       [t |-> "str", v |-> n]  the decimal string of n                   *)
(*       [t |-> "num", v |-> n]  the number n                              *)
(*       [t |-> "bad"]    a string BigInt() cannot convert                 *)

\* JavaScript truthiness of an outAmount value
Truthy(v) ==
    CASE v.t = "undef" -> FALSE
      [] v.t = "empty" -> FALSE
      [] v.t = "num"   -> v.v # 0
      [] OTHER         -> TRUE

\* the round-trip loss in hundredths of a percent:
\* Number((buyIn - sellOut) * 10000n / buyIn), before the division by 100
RoundTripLoss(buyInLamports, sellOutLamports) ==
    IF buyInLamports > 0
    THEN TruncDiv((buyInLamports - sellOutLamports) * 10000, buyInLamports)
    ELSE 0

NoSellReason == << "No", "sell", "route", "found", "-", "token", "may", "be", "a", "honeypot" >>

SellFailedReason(message) == << "Sell", "simulation", "failed:" >> \o message

ExtremeLossWarning(loss) ==
    << "Extreme", "round-trip", "loss:", ToString(loss), "-", "likely",
       "honeypot", "or", "extreme", "tax" >>

HighLossWarning(loss) ==
    << "High", "round-trip", "loss:", ToString(loss), "-", "possible",
       "hidden", "sell", "tax" >>

CannotSell(reason) ==
    [canSell |-> FALSE, reason |-> reason, roundTripLossPct |-> 0, warning |-> << >>]

checkHoneypot(amountLamports, sell) ==
    IF sell.kind = "throw" THEN CannotSell(SellFailedReason(sell.message))
    ELSE IF sell.kind = "nodata" THEN CannotSell(NoSellReason)
    ELSE IF ~Truthy(sell.outAmount) THEN CannotSell(NoSellReason)
    ELSE IF sell.outAmount.t = "bad"
    THEN CannotSell(SellFailedReason(<< "Cannot", "convert", "to", "a", "BigInt" >>))
    ELSE LET roundTripLossPct == RoundTripLoss(amountLamports, sell.outAmount.v)
         IN  [canSell |-> TRUE, reason |-> << >>,
              roundTripLossPct |-> roundTripLossPct,
              warning |-> IF roundTripLossPct > 5000
                          THEN ExtremeLossWarning(roundTripLossPct)
                          ELSE IF roundTripLossPct > 2000
                          THEN HighLossWarning(roundTripLossPct)
                          ELSE << >>]

----------------------------------------------------------------------------
(* antiscam.js: runAntiScamChecks.  tokenInfo is the record returned by   *)
(* validateTokenMint: [isToken2022, rawData, hasFreezeAuthority,           *)
(* hasMintAuthority, supply]; supply is the decimal string, kept as the    *)
(* number it denotes.                                                      *)

TransferFeeWarning(feeBps) ==
    << "Transfer", "fee:", ToString(feeBps), "bps", "(percent)", "on", "every",
       "transfer" >>

\* the second transfer-fee finding spelled like the round-trip findings
ExtremeFeeWarningLowerCase(feeBps) ==
    << "Extreme", "transfer", "fee", "(percent)", "-", "likely", "a", "scam" >>

ExtremeFeeWarning(feeBps) ==
    << "EXTREME", "transfer", "fee", "(percent)", "-", "likely", "a", "scam" >>

DelegateWarning ==
    << "Permanent", "delegate", "(delegate)", "-", "can", "transfer/burn", "your",
       "tokens", "at", "any", "time" >>

NonTransferableWarning ==
    << "Token", "is", "NON-TRANSFERABLE", "-", "you", "will", "not", "be", "able",
       "to", "sell", "or", "transfer", "it" >>

HookWarning ==
    << "Transfer", "hook", "program", "(programId)", "-", "custom", "logic", "on",
       "every", "transfer,", "can", "reject", "sells" >>

FreezeWarning ==
    << "Freeze", "authority", "active", "-", "your", "tokens", "can", "be", "frozen",
       "(blacklist", "risk)" >>

MintWarning ==
    << "Mint", "authority", "active", "-", "unlimited", "token", "inflation", "possible" >>

ZeroSupplyWarning == << "Token", "has", "zero", "supply", "-", "suspicious" >>

HoneypotWarning(reason) == << "HONEYPOT", "RISK:" >> \o reason

\* the warnings pushed by the Token-2022 block, in order
ExtensionWarnings(tokenInfo) ==
    IF tokenInfo.isToken2022 /\ tokenInfo.rawData # << >>
    THEN LET extensions == parseToken2022Extensions(tokenInfo.rawData)
             feeInfo == checkTransferFee(extensions)
         IN  (IF feeInfo.found /\ feeInfo.hasTransferFee
              THEN << TransferFeeWarning(feeInfo.feeBps) >>
                   \o (IF feeInfo.feeBps >= 1000
                       THEN << ExtremeFeeWarning(feeInfo.feeBps) >> ELSE << >>)
              ELSE << >>)
             \o (IF checkPermanentDelegate(extensions) THEN << DelegateWarning >> ELSE << >>)
             \o (IF checkNonTransferable(extensions) THEN << NonTransferableWarning >> ELSE << >>)
             \o (IF checkTransferHook(extensions) THEN << HookWarning >> ELSE << >>)
    ELSE << >>

\* the warnings pushed by the on-chain authority block, in order
AuthorityWarnings(tokenInfo) ==
    (IF tokenInfo.hasFreezeAuthority THEN << FreezeWarning >> ELSE << >>)
    \o (IF tokenInfo.hasMintAuthority THEN << MintWarning >> ELSE << >>)
    \o (IF tokenInfo.supply = 0 THEN << ZeroSupplyWarning >> ELSE << >>)

\* the honeypot block without the push for a sell that cannot be simulated
HoneypotWarningsIgnoreFailure(honeypot) ==
    IF ~honeypot.canSell THEN << >>
    ELSE IF honeypot.warning # << >> THEN << honeypot.warning >>
    ELSE << >>

\* the warnings pushed by the honeypot block
HoneypotWarnings(honeypot) ==
    IF ~honeypot.canSell THEN << HoneypotWarning(honeypot.reason) >>
    ELSE IF honeypot.warning # << >> THEN << honeypot.warning >>
    ELSE << >>

SomeIncludes(warnings, needle) ==
    \E i \in 1..Len(warnings) : Includes(warnings[i], needle)

HasCritical(warnings) ==
    \/ SomeIncludes(warnings, << "HONEYPOT" >>)
    \/ SomeIncludes(warnings, << "EXTREME" >>)
    \/ SomeIncludes(warnings, << "Permanent", "delegate" >>)
    \/ SomeIncludes(warnings, << "NON-TRANSFERABLE" >>)

HasHigh(warnings) ==
    \/ SomeIncludes(warnings, << "Freeze", "authority" >>)
    \/ SomeIncludes(warnings, << "Transfer", "hook" >>)
    \/ SomeIncludes(warnings, << "High", "round-trip" >>)

RiskLevel(warnings) ==
    IF HasCritical(warnings) THEN "critical"
    ELSE IF HasHigh(warnings) THEN "high"
    ELSE IF Len(warnings) > 0 THEN "medium"
    ELSE "low"

NoHoneypot == [canSell |-> TRUE, reason |-> << >>, roundTripLossPct |-> 0,
               warning |-> << >>]

\* in is [amountLamports, tokenInfo, hasQuote, sell]; hasQuote is buyQuote
\* being non-null; details.honeypot is kept, NoHoneypot when the check is skipped
runAntiScamChecks(in) ==
    LET honeypot == IF in.hasQuote
                    THEN checkHoneypot(in.amountLamports, in.sell)
                    ELSE NoHoneypot
        warnings == ExtensionWarnings(in.tokenInfo)
                    \o AuthorityWarnings(in.tokenInfo)
                    \o (IF in.hasQuote THEN HoneypotWarnings(honeypot) ELSE << >>)
    IN  [riskLevel |-> RiskLevel(warnings),
         warnings |-> warnings,
         honeypotRan |-> in.hasQuote,
         honeypot |-> honeypot]

----------------------------------------------------------------------------
(* Inputs of the anti-scam engine *)

\* a u16 in little-endian bytes
LE16(n) == << n % 256, (n \div 256) % 256 >>

\* one TLV entry: type, length, value
ExtEntry(type, payload) == LE16(type) \o LE16(Len(payload)) \o payload

\* TransferFeeConfig value (108 bytes) with newerTransferFee.bps at offset 106
FeePayload(bps) == Bytes(0, 106) \o LE16(bps)

\* mint account data: 82 bytes of mint, the account type, the extensions
MintAccount(accountType, tlv) == Bytes(0, 82) \o << accountType >> \o tlv

\* an entry whose declared length runs past the end of the buffer
TruncatedEntry(type, declared, present) ==
    LE16(type) \o LE16(declared) \o Bytes(7, present)

RawDatas ==
    { << >>,
      Bytes(0, 82),
      MintAccount(1, ExtEntry(EXT_NON_TRANSFERABLE, << >>)),
      MintAccount(2, ExtEntry(EXT_TRANSFER_FEE_CONFIG, FeePayload(0))),
      MintAccount(2, ExtEntry(EXT_TRANSFER_FEE_CONFIG, FeePayload(500))),
      MintAccount(2, ExtEntry(EXT_TRANSFER_FEE_CONFIG, FeePayload(999))),
      MintAccount(2, ExtEntry(EXT_TRANSFER_FEE_CONFIG, FeePayload(1000))),
      MintAccount(2, ExtEntry(EXT_TRANSFER_FEE_CONFIG, FeePayload(2500))),
      MintAccount(2, ExtEntry(EXT_PERMANENT_DELEGATE, Bytes(7, 32))),
      MintAccount(2, ExtEntry(EXT_PERMANENT_DELEGATE, Bytes(0, 32))),
      MintAccount(2, ExtEntry(EXT_NON_TRANSFERABLE, << >>)),
      MintAccount(2, ExtEntry(EXT_TRANSFER_HOOK, Bytes(7, 64))),
      MintAccount(2, ExtEntry(EXT_TRANSFER_FEE_CONFIG, FeePayload(500))
                     \o ExtEntry(EXT_TRANSFER_HOOK, Bytes(7, 64))),
      MintAccount(2, ExtEntry(EXT_TRANSFER_FEE_CONFIG, FeePayload(500))
                     \o TruncatedEntry(EXT_PERMANENT_DELEGATE, 32, 10)) }

TokenInfos ==
    [ isToken2022 : BOOLEAN, rawData : RawDatas, hasFreezeAuthority : BOOLEAN,
      hasMintAuthority : BOOLEAN, supply : {0, 1000} ]

\* a token of the classic token program without authorities
CleanToken ==
    [ isToken2022 |-> FALSE, rawData |-> Bytes(0, 82), hasFreezeAuthority |-> FALSE,
      hasMintAuthority |-> FALSE, supply |-> 1000 ]

SellOuts == {0, 60, 99, 100, 159, 160, 200, 250, 14999, 23999}

ServerErrorMessage == << "Request", "failed", "with", "status", "code", "503" >>

SellReplies ==
    { [kind |-> "throw", message |-> ServerErrorMessage],
      [kind |-> "nodata"],
      [kind |-> "data", outAmount |-> [t |-> "undef"]],
      [kind |-> "data", outAmount |-> [t |-> "empty"]],
      [kind |-> "data", outAmount |-> [t |-> "bad"]],
      [kind |-> "data", outAmount |-> [t |-> "num", v |-> 0]],
      [kind |-> "data", outAmount |-> [t |-> "num", v |-> 150]] }
    \cup { [kind |-> "data", outAmount |-> [t |-> "str", v |-> n]] : n \in SellOuts }

RiskInputs ==
    [ amountLamports : {0, 200, 30000}, tokenInfo : TokenInfos,
      hasQuote : BOOLEAN, sell : SellReplies ]

NoInput == [amountLamports |-> 0, tokenInfo |-> CleanToken, hasQuote |-> FALSE,
            sell |-> [kind |-> "nodata"]]

NoResult == [riskLevel |-> "none", warnings |-> << >>, honeypotRan |-> FALSE,
             honeypot |-> NoHoneypot]

----------------------------------------------------------------------------
(* retry.js: withRetry's classification of an HTTP client error           *)
(* [code, status, message]; status 0 stands for no response.               *)

RETRYABLE_CODES == {"ECONNRESET", "ETIMEDOUT", "ECONNABORTED", "ENOTFOUND", "EAI_AGAIN"}

\* the classification with every HTTP error status taken as transient
IsRetryableHttpAnyStatus(err) ==
    \/ err.status >= 400
    \/ err.code \in RETRYABLE_CODES

IsRetryableHttp(err) ==
    \/ err.status = 429
    \/ (err.status >= 500 /\ err.status < 600)
    \/ err.code \in RETRYABLE_CODES

\* errors of the axios client
HttpErrors ==
    { [code |-> "ECONNRESET", status |-> 0, message |-> << "read", "ECONNRESET" >>],
      [code |-> "ECONNABORTED", status |-> 0,
       message |-> << "timeout", "of", "30000ms", "exceeded" >>],
      [code |-> "ERR_BAD_REQUEST", status |-> 429,
       message |-> << "Request", "failed", "with", "status", "code", "429" >>],
      [code |-> "ERR_BAD_RESPONSE", status |-> 503, message |-> ServerErrorMessage],
      [code |-> "ERR_BAD_REQUEST", status |-> 400,
       message |-> << "Request", "failed", "with", "status", "code", "400" >>] }

\* messages of transient failures of the RPC connection
RpcTransientMessages ==
    { << "request", "failed,", "reason:", "read", "ECONNRESET" >>,
      << "429", "Too", "Many", "Requests" >> }

----------------------------------------------------------------------------
(* jupiter.js: the swap executor *)

TX_CONFIRM_TIMEOUT_MS == 60000
SWAP_MAX_RETRIES == 2
DEFAULT_RETRY_FEE_LAMPORTS == 100000
BUILD_RETRIES == 2

\* an on-chain error (confirmation.value.err) is one of
\*   [k |-> "string", s |-> name]
\*   [k |-> "instr", idx |-> i, detail |-> [k |-> "custom", code |-> c]]
\*   [k |-> "instr", idx |-> i, detail |-> [k |-> "string", s |-> name]]
\*   [k |-> "other", json |-> words]
OnChainErrors ==
    { [k |-> "string", s |-> "BlockhashNotFound"],
      [k |-> "string", s |-> "AccountInUse"],
      [k |-> "instr", idx |-> 2, detail |-> [k |-> "custom", code |-> 6001]],
      [k |-> "instr", idx |-> 0, detail |-> [k |-> "custom", code |-> 9999]],
      [k |-> "instr", idx |-> 1, detail |-> [k |-> "string", s |-> "ProgramFailedToComplete"]],
      [k |-> "other", json |-> << "{InsufficientFundsForRent:{account_index:0}}" >>] }

NoChainError == [k |-> "null"]

\* PROGRAM_ERRORS[code] || `program error code ${code}`
ProgramErrorText(code) ==
    CASE code = 0 -> << "Not", "enough", "lamports" >>
      [] code = 1 -> << "Insufficient", "funds" >>
      [] code \in {6000, 6001} -> << "Slippage", "tolerance", "exceeded" >>
      [] code = 6002 -> << "Invalid", "route", "/", "zero", "output" >>
      [] code = 6003 -> << "Exceeds", "desired", "slippage", "limit" >>
      [] OTHER -> << "program", "error", "code", ToString(code) >>

parseTransactionError(err) ==
    CASE err.k = "null" -> << "unknown", "error" >>
      [] err.k = "string" -> << err.s >>
      [] err.k = "instr" ->
            << "Instruction", "#", ToString(err.idx), ":" >>
            \o (IF err.detail.k = "custom"
                THEN ProgramErrorText(err.detail.code)
                     \o << "(Custom:", ToString(err.detail.code), ")" >>
                ELSE << err.detail.s >>)
      [] OTHER -> err.json

\* an Error object: message, and the txId / onChainError the executor attaches
Err(message) == [message |-> message, txId |-> 0, onChainError |-> NoChainError]

NoError == Err(<< >>)

\* an on-chain failure error without the transaction id attached
OnChainFailureNoTxId(txId, chainErr) ==
    [message |-> << "Transaction", "failed", "on-chain:" >> \o parseTransactionError(chainErr),
     txId |-> 0, onChainError |-> chainErr]

OnChainFailure(txId, chainErr) ==
    [message |-> << "Transaction", "failed", "on-chain:" >> \o parseTransactionError(chainErr),
     txId |-> txId, onChainError |-> chainErr]

TimeoutError ==
    Err(<< "Transaction", "confirmation", "timed", "out", "after", "60s" >>)

\* TransactionExpiredBlockheightExceededError of the RPC client
ExpiredError ==
    Err(<< "Signature", "has", "expired:", "block", "height", "exceeded", "." >>)

BlockhashNotFoundError == Err(<< "BlockhashNotFound" >>)

NoSwapTransactionError ==
    Err(<< "Jupiter", "did", "not", "return", "a", "swap", "transaction." >>)

\* an isRetryable that also takes a connection reset for retryable
IsRetryableOrReset(err) ==
    \/ Includes(err.message, << "timed", "out" >>)
    \/ Includes(err.message, << "BlockhashNotFound" >>)
    \/ Includes(err.message, << "block", "height", "exceeded" >>)
    \/ Includes(err.message, << "ECONNRESET" >>)

\* the isRetryable of executeSwap's catch
IsRetryable(err) ==
    \/ Includes(err.message, << "timed", "out" >>)
    \/ Includes(err.message, << "BlockhashNotFound" >>)
    \/ Includes(err.message, << "block", "height", "exceeded" >>)

\* a fee value: [k |-> "auto"], [k |-> "nan"] or [k |-> "num", v |-> n]
Auto == [k |-> "auto"]
NaN == [k |-> "nan"]
Num(n) == [k |-> "num", v |-> n]

\* SLIPPAGE_PERCENT defaults to '5' (thousandths of a percent); the retries
\* option of withRetry defaults to 3
DefaultSlippage == 5000
DefaultRetries == Num(3)

\* config.priorityFee is "auto", the decimal string of n, or other text:
\* [k |-> "auto"], [k |-> "str", v |-> n], [k |-> "text"]
InitialFee(configFee) ==
    CASE configFee.k = "auto" -> Auto
      [] configFee.k = "str" -> Num(configFee.v)
      [] OTHER -> NaN

\* swapBody.prioritizationFeeLamports; [k |-> "unset"] when the field is skipped
BodyFee(fee) ==
    CASE fee.k = "auto" -> Auto
      [] fee.k = "num" /\ fee.v > 0 -> fee
      [] OTHER -> [k |-> "unset"]

\* the bump rounded down instead of up
FloorBump(n) == (n * 3) \div 2

\* Math.ceil(currentFee * FEE_BUMP_MULTIPLIER), the multiplier being 1.5
CeilBump(n) == (n * 3 + 1) \div 2

\* networkFees?.high: [isNull |-> TRUE] gives undefined, modelled as 0 (falsy)
NetworkFeeEstimate(fees) == IF fees.isNull THEN 0 ELSE fees.high

\* the fee for the next attempt, computed in executeSwap's catch
BumpFee(fee, estimate) ==
    IF fee.k = "auto" \/ (fee.k = "num" /\ fee.v <= 0)
    THEN Num(IF estimate # 0 THEN estimate ELSE DEFAULT_RETRY_FEE_LAMPORTS)
    ELSE IF fee.k = "nan" THEN NaN
    ELSE Num(CeilBump(fee.v))

----------------------------------------------------------------------------
(* index.js: main() of the Solana flow.  The state is the one after the   *)
(* arguments were parsed and the configuration loaded.                     *)

EXIT_SUCCESS == 0
EXIT_BAD_ARGS == 1
EXIT_RPC_ERROR == 3
EXIT_INSUFFICIENT_FUNDS == 4
EXIT_QUOTE_ERROR == 5
EXIT_SWAP_ERROR == 6
EXIT_USER_CANCELLED == 7
EXIT_TOKEN_INVALID == 8
EXIT_PRICE_DEVIATION == 9
EXIT_SCAM_DETECTED == 10

QUOTE_MAX_AGE_MS == 10000
PRICE_ABORT_PCT == 10

\* largest numeric PRIORITY_FEE of the model
MaxFee == 4

NoExit == -1
NoQuote == -1

\* time that passes while main() awaits the network or the user, in ms
Delays == {0, 12000}

ConfigFees ==
    { [k |-> "auto"], [k |-> "text"], [k |-> "str", v |-> 0] }
    \cup { [k |-> "str", v |-> n] : n \in 1..MaxFee }

\* the PRIORITY_FEE setting of the runs of main(): the default of loadConfig
MainConfigFees == { [k |-> "auto"] }

\* the fee estimates of the runs of main()
MainNetworkFees == { [isNull |-> TRUE, high |-> 0], [isNull |-> FALSE, high |-> 7] }

NetworkFeeResults ==
    { [isNull |-> TRUE, high |-> 0], [isNull |-> FALSE, high |-> 0],
      [isNull |-> FALSE, high |-> 7] }

\* outAmount of the first quote and of the re-quote
FirstQuoteOuts == {30000}
FreshQuoteOuts == {26990, 26999, 33000}

\* what the anti-scam engine is given in a run of main(): the buy quote is
\* always present, config.amountLamports is 200
MainScamInputs ==
    { [amountLamports |-> 200, tokenInfo |-> t, hasQuote |-> TRUE, sell |-> r] :
        t \in { CleanToken },
        r \in { [kind |-> "nodata"] }
              \cup { [kind |-> "data", outAmount |-> [t |-> "str", v |-> n]] :
                       n \in {60, 200} } }

\* process.exit(code)
Exit(code) ==
    /\ pc' = "exit"
    /\ exitCode' = code

\* entry of sendSwapTransaction at time t: the swap body is made from the
\* quote in use (quote, received at quoteTs) and the fee
EnterSend(att, fee, quote, quoteTs, t) ==
    /\ builds' = Append(builds, [attempt |-> att, fee |-> BodyFee(fee),
                                 quote |-> quote, quoteAge |-> t - quoteTs])
    /\ postTry' = 0
    /\ pc' = "swap_build"
    /\ exitCode' = exitCode

\* the call of executeSwap at time t with the quote in use
StartSwap(quote, quoteTs, t) ==
    /\ attempt' = 0
    /\ currentFee' = InitialFee(priorityFee)
    /\ EnterSend(0, InitialFee(priorityFee), quote, quoteTs, t)

\* the deviation of the re-quote in hundredths of a percent:
\* Number((newOut - oldOut) * 10000n / oldOut), before the division by 100
Deviation(oldOut, newOut) ==
    IF oldOut > 0 THEN TruncDiv((newOut - oldOut) * 10000, oldOut) ELSE 0

\* the abort test of the quote freshness check
PriceAbort(deviationPct, skip) ==
    deviationPct < -(PRICE_ABORT_PCT * 100) /\ ~skip

\* the gate testing for the wrong level
ScamAbortOnHigh(riskLevel, skip) ==
    riskLevel = "high" /\ ~skip

\* the test guarding process.exit(EXIT.SCAM_DETECTED)
ScamAbort(riskLevel, skip) ==
    riskLevel = "critical" /\ ~skip

\* a dry-run test that --yes switches off
DryRunStopUnlessYes(dryRun, skip) == dryRun /\ ~skip

\* the test guarding "Dry run complete" and process.exit(EXIT.SUCCESS); it
\* does not read skipConfirm
DryRunStop(dryRun, skip) == dryRun

\* the quote freshness check at time t, up to its first await
FreshnessCheck(t) ==
    IF t - quoteTimestamp > QUOTE_MAX_AGE_MS
    THEN /\ pc' = "requote"
         /\ UNCHANGED << exitCode, attempt, currentFee, postTry, builds >>
    ELSE StartSwap(quoteResponse, quoteTimestamp, t)

\* what Init fixes for the run: the arguments, the settings and the network
Options == << venue, skipConfirm, isDryRun, isTTY, priorityFee, buyRetries, feeData,
             slippagePercent, retries >>

\* with the answer to the confirmation prompt, which only ConfirmPrompt writes
Settings == << Options, answer >>

\* variables the Solana main() and the executors never write
Args == << Settings, gasSettings >>

\* variables of the executor session
Session == << attempt, currentFee, postTry, builds, txs, timer, swapErr, result >>

\* warmupRpc: four RPC calls; a failure exits with RPC_ERROR
WarmupRpc ==
    /\ venue = "solana" /\ pc = "warmup"
    /\ \E ok \in BOOLEAN :
          IF ok THEN pc' = "network" /\ exitCode' = exitCode
          ELSE Exit(EXIT_RPC_ERROR)
    /\ UNCHANGED << Args, networkFees, scamInput, scamResult, quoteResponse,
                    quoteTimestamp, now, Session >>

\* the --percent override and the balance check that follow network detection
BalanceCheck(outcome) ==
    CASE outcome = "bad_percent" -> Exit(EXIT_BAD_ARGS)
      [] outcome = "insufficient" -> Exit(EXIT_INSUFFICIENT_FUNDS)
      [] OTHER -> pc' = "fees" /\ exitCode' = exitCode

BalanceOutcomes == {"ok", "bad_percent", "insufficient"}

\* detectNetwork and the mainnet safety prompt, up to the next await
DetectNetwork ==
    /\ venue = "solana" /\ pc = "network"
    /\ \E network \in {"mainnet-beta", "devnet", "unknown"}, outcome \in BalanceOutcomes :
          IF network = "mainnet-beta" /\ ~skipConfirm /\ ~isDryRun
          THEN IF ~isTTY THEN Exit(EXIT_BAD_ARGS)
               ELSE pc' = "mainnet_confirm" /\ exitCode' = exitCode
          ELSE BalanceCheck(outcome)
    /\ UNCHANGED << Args, networkFees, scamInput, scamResult, quoteResponse,
                    quoteTimestamp, now, Session >>

\* the answer to "You are on MAINNET. Continue?"
MainnetConfirm ==
    /\ venue = "solana" /\ pc = "mainnet_confirm"
    /\ \E ok \in BOOLEAN, outcome \in BalanceOutcomes :
          IF ~ok THEN Exit(EXIT_USER_CANCELLED) ELSE BalanceCheck(outcome)
    /\ UNCHANGED << Args, networkFees, scamInput, scamResult, quoteResponse,
                    quoteTimestamp, now, Session >>

\* estimatePriorityFee never throws
EstimateFee ==
    /\ venue = "solana" /\ pc = "fees"
    /\ \E f \in MainNetworkFees : networkFees' = f
    /\ pc' = "validate"
    /\ UNCHANGED << Args, exitCode, scamInput, scamResult, quoteResponse,
                    quoteTimestamp, now, Session >>

\* validateTokenMint: invalid or throwing exits with TOKEN_INVALID
ValidateToken ==
    /\ venue = "solana" /\ pc = "validate"
    /\ \E valid \in BOOLEAN :
          IF valid THEN pc' = "pools" /\ exitCode' = exitCode
          ELSE Exit(EXIT_TOKEN_INVALID)
    /\ UNCHANGED << Args, networkFees, scamInput, scamResult, quoteResponse,
                    quoteTimestamp, now, Session >>

\* the DexScreener lookup and the pool account check: informational only
AnalyzePools ==
    /\ venue = "solana" /\ pc = "pools"
    /\ pc' = "quote"
    /\ UNCHANGED << Args, exitCode, networkFees, scamInput, scamResult, quoteResponse,
                    quoteTimestamp, now, Session >>

\* a getQuote after which main() goes straight to executeSwap
GetQuoteThenSwap ==
    /\ venue = "solana" /\ pc = "quote"
    /\ \/ /\ Exit(EXIT_QUOTE_ERROR)
          /\ UNCHANGED << quoteResponse, quoteTimestamp, attempt, currentFee,
                          postTry, builds >>
       \/ /\ \E out \in FirstQuoteOuts :
                /\ quoteResponse' = out
                /\ StartSwap(out, now, now)
          /\ quoteTimestamp' = now
    /\ UNCHANGED << Args, networkFees, scamInput, scamResult, now, txs, timer,
                    swapErr, result >>

\* the first getQuote
GetQuote ==
    /\ venue = "solana" /\ pc = "quote"
    /\ \/ /\ Exit(EXIT_QUOTE_ERROR)
          /\ UNCHANGED << quoteResponse, quoteTimestamp >>
       \/ /\ \E out \in FirstQuoteOuts : quoteResponse' = out
          /\ quoteTimestamp' = now
          /\ pc' = "antiscam" /\ exitCode' = exitCode
    /\ UNCHANGED << Args, networkFees, scamInput, scamResult, now, Session >>

\* runAntiScamChecks returns; main() runs on to its next await
AntiScam ==
    /\ venue = "solana" /\ pc = "antiscam"
    /\ \E in \in MainScamInputs, d \in Delays :
          /\ scamInput' = in
          /\ scamResult' = runAntiScamChecks(in)
          /\ now' = now + d
          /\ IF ScamAbort(runAntiScamChecks(in).riskLevel, skipConfirm)
             THEN Exit(EXIT_SCAM_DETECTED)
                  /\ UNCHANGED << attempt, currentFee, postTry, builds >>
             ELSE IF DryRunStop(isDryRun, skipConfirm)
             THEN Exit(EXIT_SUCCESS)
                  /\ UNCHANGED << attempt, currentFee, postTry, builds >>
             ELSE IF ~skipConfirm
             THEN /\ IF ~isTTY THEN Exit(EXIT_BAD_ARGS)
                     ELSE pc' = "confirm" /\ exitCode' = exitCode
                  /\ UNCHANGED << attempt, currentFee, postTry, builds >>
             ELSE FreshnessCheck(now + d)
    /\ UNCHANGED << Args, networkFees, quoteResponse, quoteTimestamp, txs, timer,
                    swapErr, result >>

\* String.prototype.trim on a text given as its characters
RECURSIVE Trim(_)
Trim(text) ==
    IF text = << >> THEN text
    ELSE IF Head(text) = " " THEN Trim(Tail(text))
    ELSE IF text[Len(text)] = " " THEN Trim(SubSeq(text, 1, Len(text) - 1))
    ELSE text

\* String.prototype.toLowerCase on the letters that occur
ToLowerCase(text) ==
    [i \in 1..Len(text) |->
        CASE text[i] = "Y" -> "y"
          [] text[i] = "E" -> "e"
          [] text[i] = "S" -> "s"
          [] text[i] = "N" -> "n"
          [] OTHER -> text[i]]

\* nothing typed yet
NoAnswer == << "?" >>

\* lines typed at the prompt
Answers ==
    { << "y" >>, << " ", "Y", "E", "S", " " >>, << "n" >>, << >>,
      << "y", "e", "a", "h" >> }

\* a confirm that takes every answer beginning with y for a yes
confirmByFirstLetter(text) ==
    Trim(text) # << >> /\ ToLowerCase(Trim(text))[1] = "y"

\* confirm(message): TRUE when the trimmed, lower-cased answer is y or yes
confirm(text) ==
    \/ ToLowerCase(Trim(text)) = << "y" >>
    \/ ToLowerCase(Trim(text)) = << "y", "e", "s" >>

\* the answer to "Proceed with swap?"
ConfirmPrompt ==
    /\ venue = "solana" /\ pc = "confirm"
    /\ \E typed \in Answers, d \in Delays :
          /\ answer' = typed
          /\ now' = now + d
          /\ IF ~confirm(typed)
             THEN Exit(EXIT_USER_CANCELLED)
                  /\ UNCHANGED << attempt, currentFee, postTry, builds >>
             ELSE FreshnessCheck(now + d)
    /\ UNCHANGED << Options, gasSettings, networkFees, scamInput, scamResult,
                    quoteResponse, quoteTimestamp, txs, timer, swapErr, result >>

\* the re-quote fails: the original quote stays in use
RequoteFails ==
    /\ venue = "solana" /\ pc = "requote"
    /\ StartSwap(quoteResponse, quoteTimestamp, now)
    /\ UNCHANGED << Args, networkFees, scamInput, scamResult, quoteResponse,
                    quoteTimestamp, now, txs, timer, swapErr, result >>

\* the re-quote returns freshQuote
RequoteOk ==
    /\ venue = "solana" /\ pc = "requote"
    /\ \E newOut \in FreshQuoteOuts :
          IF PriceAbort(Deviation(quoteResponse, newOut), skipConfirm)
          THEN /\ Exit(EXIT_PRICE_DEVIATION)
               /\ UNCHANGED << quoteResponse, quoteTimestamp, attempt, currentFee,
                               postTry, builds >>
          ELSE /\ quoteResponse' = newOut
               /\ quoteTimestamp' = now
               /\ StartSwap(newOut, now, now)
    /\ UNCHANGED << Args, networkFees, scamInput, scamResult, now, txs, timer, swapErr,
                    result >>

----------------------------------------------------------------------------
(* jupiter.js: executeSwap and sendSwapTransaction, one action per await  *)

\* a catch whose attempt cap is off by one
CatchOnePastCap(err, t) ==
    /\ swapErr' = err
    /\ IF ~IsRetryable(err) \/ attempt = SWAP_MAX_RETRIES + 1
       THEN /\ Exit(EXIT_SWAP_ERROR)
            /\ UNCHANGED << attempt, currentFee, postTry, builds >>
       ELSE /\ currentFee' = BumpFee(currentFee, NetworkFeeEstimate(networkFees))
            /\ attempt' = attempt + 1
            /\ EnterSend(attempt + 1,
                         BumpFee(currentFee, NetworkFeeEstimate(networkFees)),
                         quoteResponse, quoteTimestamp, t)

\* the catch block of executeSwap at time t, followed by main()'s catch
\* when the error is rethrown; swapErr is the error last caught
Catch(err, t) ==
    /\ swapErr' = err
    /\ IF ~IsRetryable(err) \/ attempt = SWAP_MAX_RETRIES
       THEN /\ Exit(EXIT_SWAP_ERROR)
            /\ UNCHANGED << attempt, currentFee, postTry, builds >>
       ELSE /\ currentFee' = BumpFee(currentFee, NetworkFeeEstimate(networkFees))
            /\ attempt' = attempt + 1
            /\ EnterSend(attempt + 1,
                         BumpFee(currentFee, NetworkFeeEstimate(networkFees)),
                         quoteResponse, quoteTimestamp, t)

InSwap(at) == venue = "solana" /\ pc = at

Main == << Args, networkFees, scamInput, scamResult, quoteResponse, quoteTimestamp >>

\* Jupiter returns the swap transaction; it is deserialized and signed
BuildOk ==
    /\ InSwap("swap_build")
    /\ pc' = "swap_blockhash"
    /\ UNCHANGED << Main, exitCode, now, Session >>

\* Jupiter answers without a swapTransaction
BuildNoTransaction ==
    /\ InSwap("swap_build")
    /\ Catch(NoSwapTransactionError, now)
    /\ UNCHANGED << Main, now, txs, timer, result >>

\* the POST fails: withRetry repeats it or rethrows
BuildHttpError ==
    /\ InSwap("swap_build")
    /\ \E e \in HttpErrors :
          IF IsRetryableHttp(e) /\ postTry # BUILD_RETRIES
          THEN /\ postTry' = postTry + 1
               /\ UNCHANGED << pc, exitCode, attempt, currentFee, builds, swapErr >>
          ELSE Catch(Err(e.message), now)
    /\ UNCHANGED << Main, now, txs, timer, result >>

BlockhashOk ==
    /\ InSwap("swap_blockhash")
    /\ pc' = "swap_send"
    /\ UNCHANGED << Main, exitCode, now, Session >>

BlockhashFails ==
    /\ InSwap("swap_blockhash")
    /\ \E m \in RpcTransientMessages : Catch(Err(m), now)
    /\ UNCHANGED << Main, now, txs, timer, result >>

\* sendRawTransaction returns the signature; the confirmation race starts
SendOk ==
    /\ InSwap("swap_send")
    /\ txs' = Append(txs, [id |-> Len(txs) + 1, attempt |-> attempt,
                           fee |-> builds[Len(builds)].fee, status |-> "pending",
                           err |-> NoChainError, logs |-> "unfetched"])
    /\ timer' = TRUE
    /\ pc' = "swap_confirm"
    /\ UNCHANGED << Main, exitCode, now, attempt, currentFee, postTry, builds,
                    swapErr, result >>

\* the node rejects the transaction before it enters the chain
SendBlockhashNotFound ==
    /\ InSwap("swap_send")
    /\ Catch(BlockhashNotFoundError, now)
    /\ UNCHANGED << Main, now, txs, timer, result >>

SendFails ==
    /\ InSwap("swap_send")
    /\ \E m \in RpcTransientMessages : Catch(Err(m), now)
    /\ UNCHANGED << Main, now, txs, timer, result >>

\* the transaction awaited by the confirmation race
Awaited == txs[Len(txs)]

Settle(status) == [txs EXCEPT ![Len(txs)].status = status]

\* a confirmation that returns without clearing the timer
ConfirmOkTimerLeft ==
    /\ InSwap("swap_confirm")
    /\ txs' = Settle("confirmed")
    /\ timer' = timer
    /\ result' = Awaited.id
    /\ Exit(EXIT_SUCCESS)
    /\ UNCHANGED << Main, now, attempt, currentFee, postTry, builds, swapErr >>

\* confirmTransaction resolves without error: executeSwap returns the id
ConfirmOk ==
    /\ InSwap("swap_confirm")
    /\ txs' = Settle("confirmed")
    /\ timer' = FALSE
    /\ result' = Awaited.id
    /\ Exit(EXIT_SUCCESS)
    /\ UNCHANGED << Main, now, attempt, currentFee, postTry, builds, swapErr >>

\* what fetchTransactionLogs meets: log lines, a transaction without logs
\* (null), or getTransaction throwing, which it turns into null
LogFetches == {"lines", "null", "threw"}

\* confirmTransaction resolves with value.err set: the logs are fetched and
\* the on-chain error is thrown
ConfirmOnChainError ==
    /\ InSwap("swap_confirm")
    /\ \E e \in OnChainErrors, l \in LogFetches :
          /\ txs' = [txs EXCEPT ![Len(txs)].status = "failed", ![Len(txs)].err = e,
                                ![Len(txs)].logs = l]
          /\ Catch(OnChainFailure(Awaited.id, e), now)
    /\ timer' = FALSE
    /\ UNCHANGED << Main, now, result >>

\* confirmTransaction rejects: the blockhash expired before the transaction landed
ConfirmExpired ==
    /\ InSwap("swap_confirm")
    /\ Catch(ExpiredError, now)
    /\ txs' = Settle("expired")
    /\ timer' = FALSE
    /\ UNCHANGED << Main, now, result >>

\* confirmTransaction rejects because the connection failed
ConfirmRejects ==
    /\ InSwap("swap_confirm")
    /\ \E m \in RpcTransientMessages : Catch(Err(m), now)
    /\ timer' = FALSE
    /\ UNCHANGED << Main, now, txs, result >>

\* the timeout timer fires first
ConfirmTimeout ==
    /\ InSwap("swap_confirm")
    /\ now' = now + TX_CONFIRM_TIMEOUT_MS
    /\ Catch(TimeoutError, now + TX_CONFIRM_TIMEOUT_MS)
    /\ timer' = FALSE
    /\ UNCHANGED << Main, txs, result >>

\* while the bot runs, the chain decides a transaction the executor no
\* longer waits for
ChainSettles ==
    /\ venue = "solana" /\ pc # "exit"
    /\ \E i \in 1..Len(txs), status \in {"confirmed", "expired"} :
          /\ txs[i].status = "pending"
          /\ ~(pc = "swap_confirm" /\ i = Len(txs))
          /\ txs' = [txs EXCEPT ![i].status = status]
    /\ UNCHANGED << Main, pc, exitCode, now, attempt, currentFee, postTry, builds,
                    timer, swapErr, result >>

----------------------------------------------------------------------------
(* The BSC flow: main() in one-shot mode from the gas price step on,       *)
(* processToken and the PancakeSwap executeBuy.  The anti-scam engine of   *)
(* this flow is taken by the level it returns.                             *)

\* largest BUY_RETRIES of the model
MaxBuyRetries == 2

\* riskLevel of the BSC runAntiScamChecks
BscRiskLevels == {"low", "medium", "high", "critical"}

\* the test guarding "Skipping token" in processToken
BscScamSkip(riskLevel) == riskLevel = "critical"

\* variables the BSC flow never writes
BscEnv == << Settings, networkFees, scamInput, quoteResponse, quoteTimestamp, now,
             currentFee, postTry, builds, timer, result >>

\* variables the BSC flow leaves alone after the gas price step
BscFixed == << BscEnv, gasSettings >>

\* the default of MAX_GAS_PRICE_GWEI
MAX_GAS_PRICE_GWEI == 5

\* gas prices are counted in units of 0.1 gwei:
\* ethers.parseUnits(g.toString(), 'gwei')
ParseGwei(g) == g * 10

\* gas prices of the network: below the cap, at the cap, just above, twice
NetworkGasPrices == {30, 50, 51, 100}

\* provider.getFeeData() resolves with the network's gasPrice, resolves with
\* gasPrice null, or throws
FeeDatas ==
    { [network |-> g, reply |-> r] : g \in NetworkGasPrices,
                                      r \in {"price", "null", "throws"} }

NoFeeData == [network |-> 0, reply |-> "none"]

NoGasSettings == [k |-> "undefined"]

\* getGasPrice(provider, maxGasPriceGwei) inside main()'s try: a throw leaves
\* gasSettings undefined; parseFloat(formatUnits(gasPrice, 'gwei')) exceeds
\* maxGasPriceGwei exactly when gasPrice exceeds the cap's amount
getGasPrice(fd, maxGasPriceGwei) ==
    IF fd.reply # "price" THEN NoGasSettings
    ELSE IF fd.network > ParseGwei(maxGasPriceGwei)
    THEN [k |-> "set", gasPrice |-> ParseGwei(maxGasPriceGwei), capped |-> TRUE]
    ELSE [k |-> "set", gasPrice |-> fd.network, capped |-> FALSE]

\* txOverrides.gasPrice / txRequest.gasPrice: set only if (gasSettings?.gasPrice)
AttachedGasPrice ==
    IF gasSettings.k = "set" /\ gasSettings.gasPrice # 0
    THEN Num(gasSettings.gasPrice) ELSE [k |-> "unset"]

\* getGasPrice returns or throws (the default is used); then the one-shot
\* branch: dry run, or the confirmation gate before processToken
BscGasPrice ==
    /\ venue = "bsc" /\ pc = "bsc_gas"
    /\ gasSettings' = getGasPrice(feeData, MAX_GAS_PRICE_GWEI)
    /\ IF isDryRun THEN pc' = "bsc_dry_token" /\ exitCode' = exitCode
       ELSE IF ~skipConfirm
       THEN IF ~isTTY THEN Exit(EXIT_BAD_ARGS)
            ELSE pc' = "bsc_confirm" /\ exitCode' = exitCode
       ELSE pc' = "bsc_token" /\ exitCode' = exitCode
    /\ UNCHANGED << BscEnv, scamResult, attempt, txs, swapErr >>

\* dry run: getTokenInfo; a failure exits with TOKEN_INVALID
BscDryTokenInfo ==
    /\ venue = "bsc" /\ pc = "bsc_dry_token"
    /\ \E ok \in BOOLEAN :
          IF ok THEN pc' = "bsc_dry_pools" /\ exitCode' = exitCode
          ELSE Exit(EXIT_TOKEN_INVALID)
    /\ UNCHANGED << BscFixed, scamResult, attempt, txs, swapErr >>

\* dry run: fetchPools and analyzePools, a failure is only warned about
BscDryPools ==
    /\ venue = "bsc" /\ pc = "bsc_dry_pools"
    /\ pc' = "bsc_dry_antiscam"
    /\ UNCHANGED << BscFixed, exitCode, scamResult, attempt, txs, swapErr >>

\* dry run: runAntiScamChecks, then exit with SUCCESS
BscDryAntiScam ==
    /\ venue = "bsc" /\ pc = "bsc_dry_antiscam"
    /\ \E level \in BscRiskLevels :
          scamResult' = [NoResult EXCEPT !.riskLevel = level]
    /\ Exit(EXIT_SUCCESS)
    /\ UNCHANGED << BscFixed, attempt, txs, swapErr >>

\* the answer to "Proceed? (y/n)"
BscConfirm ==
    /\ venue = "bsc" /\ pc = "bsc_confirm"
    /\ \E ok \in BOOLEAN :
          IF ok THEN pc' = "bsc_token" /\ exitCode' = exitCode
          ELSE Exit(EXIT_USER_CANCELLED)
    /\ UNCHANGED << BscFixed, scamResult, attempt, txs, swapErr >>

\* processToken: getTokenInfo; a failure returns false, main() exits
\* with SWAP_ERROR
BscTokenInfo ==
    /\ venue = "bsc" /\ pc = "bsc_token"
    /\ \E ok \in BOOLEAN :
          IF ok THEN pc' = "bsc_pools" /\ exitCode' = exitCode
          ELSE Exit(EXIT_SWAP_ERROR)
    /\ UNCHANGED << BscFixed, scamResult, attempt, txs, swapErr >>

\* processToken: the pool lookup and the liquidity check
BscPools ==
    /\ venue = "bsc" /\ pc = "bsc_pools"
    /\ \E belowMinimum \in BOOLEAN :
          IF belowMinimum THEN Exit(EXIT_SWAP_ERROR)
          ELSE pc' = "bsc_antiscam" /\ exitCode' = exitCode
    /\ UNCHANGED << BscFixed, scamResult, attempt, txs, swapErr >>

\* processToken: runAntiScamChecks; a critical token is skipped
BscAntiScam ==
    /\ venue = "bsc" /\ pc = "bsc_antiscam"
    /\ \E level \in BscRiskLevels :
          /\ scamResult' = [NoResult EXCEPT !.riskLevel = level]
          /\ IF BscScamSkip(level) THEN Exit(EXIT_SWAP_ERROR)
             ELSE pc' = "bsc_quote" /\ exitCode' = exitCode
    /\ UNCHANGED << BscFixed, attempt, txs, swapErr >>

\* (config.buyRetries || 0) + 1
MaxAttempts == buyRetries + 1

\* executeBuy: getQuote and applySlippage; a failing quote is thrown to
\* processToken
BscQuote ==
    /\ venue = "bsc" /\ pc = "bsc_quote"
    /\ \E ok \in BOOLEAN :
          IF ok THEN pc' = "bsc_send" /\ exitCode' = exitCode /\ attempt' = 1
          ELSE Exit(EXIT_SWAP_ERROR) /\ attempt' = attempt
    /\ UNCHANGED << BscFixed, scamResult, txs, swapErr >>

\* a catch that does not look at err.txHash
BscCatchRetriesRevert(err) ==
    /\ swapErr' = err
    /\ IF attempt = MaxAttempts
       THEN Exit(EXIT_SWAP_ERROR) /\ attempt' = attempt
       ELSE pc' = "bsc_send" /\ exitCode' = exitCode /\ attempt' = attempt + 1

\* the catch of executeBuy's loop, followed by processToken's catch when
\* the error is rethrown
BscCatch(err) ==
    /\ swapErr' = err
    /\ IF err.txId # 0 \/ attempt = MaxAttempts
       THEN Exit(EXIT_SWAP_ERROR) /\ attempt' = attempt
       ELSE pc' = "bsc_send" /\ exitCode' = exitCode /\ attempt' = attempt + 1

\* the router call returns the transaction response, or throws
BscSend ==
    /\ venue = "bsc" /\ pc = "bsc_send"
    /\ \/ /\ txs' = Append(txs, [id |-> Len(txs) + 1, attempt |-> attempt,
                                  fee |-> AttachedGasPrice, status |-> "pending",
                                  err |-> NoChainError, logs |-> "unfetched"])
          /\ pc' = "bsc_wait"
          /\ UNCHANGED << exitCode, attempt, swapErr >>
       \/ /\ \E m \in RpcTransientMessages : BscCatch(Err(m))
          /\ txs' = txs
    /\ UNCHANGED << BscFixed, scamResult >>

\* tx.wait() returns the receipt (status 1 or 0), or throws
BscWait ==
    /\ venue = "bsc" /\ pc = "bsc_wait"
    /\ \/ /\ txs' = [txs EXCEPT ![Len(txs)].status = "confirmed"]
          /\ Exit(EXIT_SUCCESS)
          /\ UNCHANGED << attempt, swapErr >>
       \/ /\ txs' = [txs EXCEPT ![Len(txs)].status = "failed"]
          /\ BscCatch([message |-> << "Transaction", "reverted", "on-chain" >>,
                       txId |-> Len(txs), onChainError |-> NoChainError])
       \/ /\ \E m \in RpcTransientMessages : BscCatch(Err(m))
          /\ txs' = txs
    /\ UNCHANGED << BscFixed, scamResult >>

----------------------------------------------------------------------------

\* the executor session before executeSwap is called
NoSession ==
    /\ attempt = 0
    /\ currentFee = Auto
    /\ postTry = 0
    /\ builds = << >>
    /\ txs = << >>
    /\ timer = FALSE
    /\ swapErr = NoError
    /\ result = 0

\* a run of main() of the Solana flow or of the BSC flow
Init ==
    /\ \/ venue = "solana" /\ pc = "warmup" /\ buyRetries = 0 /\ feeData = NoFeeData
       \/ /\ venue = "bsc" /\ pc = "bsc_gas"
          /\ buyRetries \in 0..MaxBuyRetries
          /\ feeData \in FeeDatas
    /\ gasSettings = NoGasSettings
    /\ slippagePercent = DefaultSlippage
    /\ answer = NoAnswer
    /\ retries = DefaultRetries
    /\ exitCode = NoExit
    /\ skipConfirm \in BOOLEAN
    /\ isDryRun \in BOOLEAN
    /\ isTTY \in BOOLEAN
    /\ priorityFee \in MainConfigFees
    /\ networkFees = [isNull |-> TRUE, high |-> 0]
    /\ scamInput = NoInput
    /\ scamResult = NoResult
    /\ quoteResponse = NoQuote
    /\ quoteTimestamp = 0
    /\ now = 0
    /\ NoSession

Next ==
    \/ WarmupRpc \/ DetectNetwork \/ MainnetConfirm \/ EstimateFee
    \/ ValidateToken \/ AnalyzePools \/ GetQuote \/ AntiScam \/ ConfirmPrompt
    \/ RequoteFails \/ RequoteOk
    \/ BuildOk \/ BuildNoTransaction \/ BuildHttpError
    \/ BlockhashOk \/ BlockhashFails
    \/ SendOk \/ SendBlockhashNotFound \/ SendFails
    \/ ConfirmOk \/ ConfirmOnChainError \/ ConfirmExpired \/ ConfirmRejects
    \/ ConfirmTimeout \/ ChainSettles
    \/ BscGasPrice \/ BscDryTokenInfo \/ BscDryPools \/ BscDryAntiScam
    \/ BscConfirm \/ BscTokenInfo \/ BscPools \/ BscAntiScam
    \/ BscQuote \/ BscSend \/ BscWait

Spec == Init /\ [][Next]_vars

\* a call of executeSwap on its own: any fee setting, any fee estimate
InitSwap ==
    /\ venue = "solana"
    /\ pc = "call"
    /\ exitCode = NoExit
    /\ skipConfirm = TRUE
    /\ isDryRun = FALSE
    /\ isTTY = FALSE
    /\ priorityFee \in ConfigFees
    /\ buyRetries = 0
    /\ feeData = NoFeeData
    /\ gasSettings = NoGasSettings
    /\ slippagePercent = DefaultSlippage
    /\ answer = NoAnswer
    /\ retries = DefaultRetries
    /\ networkFees \in NetworkFeeResults
    /\ scamInput = NoInput
    /\ scamResult = NoResult
    /\ quoteResponse = 30000
    /\ quoteTimestamp = 0
    /\ now = 0
    /\ NoSession

\* executeSwap(config, quoteResponse, connection, opts)
CallExecuteSwap ==
    /\ venue = "solana" /\ pc = "call"
    /\ StartSwap(quoteResponse, quoteTimestamp, now)
    /\ UNCHANGED << Main, now, txs, timer, swapErr, result >>

NextSwap ==
    \/ CallExecuteSwap
    \/ BuildOk \/ BuildNoTransaction \/ BuildHttpError
    \/ BlockhashOk \/ BlockhashFails
    \/ SendOk \/ SendBlockhashNotFound \/ SendFails
    \/ ConfirmOk \/ ConfirmOnChainError \/ ConfirmExpired \/ ConfirmRejects
    \/ ConfirmTimeout \/ ChainSettles

SpecSwap == InitSwap /\ [][NextSwap]_vars

\* executeSwap with every await settling: the build request has a 30 s
\* timeout, the confirmation races a 60 s timer, the RPC calls return or
\* reject
SpecSwapLive == SpecSwap /\ WF_vars(NextSwap)

----------------------------------------------------------------------------
(* swap.js, 0x variant: executeBuy on its own.  postTry is the attempt of   *)
(* withRetry around the quote request, so the request was made postTry + 1  *)
(* times.                                                                    *)

\* retries: config.buyRetries || 3
QuoteRetries == IF buyRetries # 0 THEN buyRetries ELSE 3

\* variables executeBuy never writes
ZxFixed == << Args, networkFees, scamInput, scamResult, quoteResponse, quoteTimestamp,
              now, exitCode, attempt, currentFee, builds, timer, result >>

\* the quote request returns: without liquidity executeBuy throws, else it
\* goes on to send the transaction of the quote
ZxQuoteOk ==
    /\ venue = "zerox" /\ pc = "zx_quote"
    /\ \E liquidityAvailable \in BOOLEAN :
          IF liquidityAvailable
          THEN pc' = "zx_send" /\ swapErr' = swapErr
          ELSE /\ pc' = "zx_thrown"
               /\ swapErr' = Err(<< "No", "liquidity", "available", "for", "this",
                                    "token", "on", "any", "DEX" >>)
    /\ UNCHANGED << ZxFixed, postTry, txs >>

\* the quote request fails: withRetry repeats it (onRetry logs the error) or
\* rethrows
ZxQuoteHttpError ==
    /\ venue = "zerox" /\ pc = "zx_quote"
    /\ \E e \in HttpErrors :
          /\ swapErr' = Err(e.message)
          /\ IF IsRetryableHttp(e) /\ postTry # QuoteRetries
             THEN postTry' = postTry + 1 /\ pc' = pc
             ELSE postTry' = postTry /\ pc' = "zx_thrown"
    /\ UNCHANGED << ZxFixed, txs >>

\* wallet.sendTransaction returns the transaction response, or throws
ZxSend ==
    /\ venue = "zerox" /\ pc = "zx_send"
    /\ \/ /\ txs' = Append(txs, [id |-> Len(txs) + 1, attempt |-> attempt,
                                  fee |-> AttachedGasPrice, status |-> "pending",
                                  err |-> NoChainError, logs |-> "unfetched"])
          /\ pc' = "zx_wait"
          /\ swapErr' = swapErr
       \/ /\ \E m \in RpcTransientMessages : swapErr' = Err(m)
          /\ pc' = "zx_thrown"
          /\ txs' = txs
    /\ UNCHANGED << ZxFixed, postTry >>

\* tx.wait() returns the receipt (status 1 or 0), or throws
ZxWait ==
    /\ venue = "zerox" /\ pc = "zx_wait"
    /\ \/ /\ txs' = [txs EXCEPT ![Len(txs)].status = "confirmed"]
          /\ pc' = "zx_returned"
          /\ swapErr' = swapErr
       \/ /\ txs' = [txs EXCEPT ![Len(txs)].status = "failed"]
          /\ swapErr' = [message |-> << "Transaction", "reverted", "on-chain" >>,
                         txId |-> Len(txs), onChainError |-> NoChainError]
          /\ pc' = "zx_thrown"
       \/ /\ \E m \in RpcTransientMessages : swapErr' = Err(m)
          /\ pc' = "zx_thrown"
          /\ txs' = txs
    /\ UNCHANGED << ZxFixed, postTry >>

\* a call of executeBuy with BUY_RETRIES = buyRetries
InitZeroX ==
    /\ venue = "zerox"
    /\ pc = "zx_quote"
    /\ exitCode = NoExit
    /\ skipConfirm = TRUE
    /\ isDryRun = FALSE
    /\ isTTY = FALSE
    /\ priorityFee = Auto
    /\ buyRetries \in 0..MaxBuyRetries
    /\ feeData = NoFeeData
    /\ gasSettings \in { getGasPrice(fd, MAX_GAS_PRICE_GWEI) : fd \in FeeDatas }
    /\ slippagePercent = DefaultSlippage
    /\ answer = NoAnswer
    /\ retries = DefaultRetries
    /\ networkFees = [isNull |-> TRUE, high |-> 0]
    /\ scamInput = NoInput
    /\ scamResult = NoResult
    /\ quoteResponse = NoQuote
    /\ quoteTimestamp = 0
    /\ now = 0
    /\ NoSession

NextZeroX == ZxQuoteOk \/ ZxQuoteHttpError \/ ZxSend \/ ZxWait

SpecZeroX == InitZeroX /\ [][NextZeroX]_vars

----------------------------------------------------------------------------
(* runAntiScamChecks on its own, over the token and sell-quote inputs       *)

InitRisk ==
    /\ venue = "risk"
    /\ pc = "antiscam"
    /\ exitCode = NoExit
    /\ skipConfirm = FALSE
    /\ isDryRun = FALSE
    /\ isTTY = FALSE
    /\ priorityFee = Auto
    /\ buyRetries = 0
    /\ feeData = NoFeeData
    /\ gasSettings = NoGasSettings
    /\ slippagePercent = DefaultSlippage
    /\ answer = NoAnswer
    /\ retries = DefaultRetries
    /\ networkFees = [isNull |-> TRUE, high |-> 0]
    /\ scamInput \in RiskInputs
    /\ scamResult = NoResult
    /\ quoteResponse = NoQuote
    /\ quoteTimestamp = 0
    /\ now = 0
    /\ NoSession

\* runAntiScamChecks(config, outputMint, tokenInfo, quoteResponse, amountLamports)
RunAntiScamChecks ==
    /\ venue = "risk" /\ pc = "antiscam"
    /\ scamResult' = runAntiScamChecks(scamInput)
    /\ pc' = "done"
    /\ UNCHANGED << venue, exitCode, skipConfirm, isDryRun, isTTY, priorityFee,
                    buyRetries, feeData, gasSettings, slippagePercent, retries,
                    answer, networkFees, scamInput,
                    quoteResponse, quoteTimestamp, now,
                    Session, txs, timer, swapErr, result >>

NextRisk == RunAntiScamChecks

SpecRisk == InitRisk /\ [][NextRisk]_vars

----------------------------------------------------------------------------
(* applySlippage of the PancakeSwap executeBuy                              *)

\* Math.round(slippagePercent * 100) for a percentage given in thousandths of
\* a percent; the inputs used have no digit 5 in the last place, where the
\* floating-point product decides the tie
RoundTimes100(percent) == (percent + 5) \div 10

\* a * k / d of non-negative BigInts, truncated, without forming the product
MulDiv(a, k, d) == (a \div d) * k + ((a % d) * k) \div d

\* expectedOut * (100 - whole percent) / 100: the fraction of the percentage
\* is dropped
applySlippageWholePercent(expectedOut, percent) ==
    MulDiv(expectedOut, 100 - (percent \div 1000), 100)

\* applySlippage(expectedOut, slippagePercent)
applySlippage(expectedOut, percent) ==
    LET bps == RoundTimes100(percent)
    IN  MulDiv(expectedOut, 10000 - bps, 10000)

\* expectedOut values returned by getQuote
ExpectedOuts == { 0, 1, 19, 9999, 10001, 123457, 999999, 1000000 }

\* config.slippagePercent values that pass the validation (0 to 50 percent),
\* in thousandths of a percent
SlippagePercents ==
    { 0, 4, 6, 10, 500, 1000, 1234, 5000, 5500, 5504, 5506, 12340, 20000 }

InitSlippage ==
    /\ venue = "slippage" /\ pc = "slip_quote"
    /\ exitCode = NoExit
    /\ skipConfirm = TRUE
    /\ isDryRun = FALSE
    /\ isTTY = FALSE
    /\ priorityFee = Auto
    /\ buyRetries = 0
    /\ feeData = NoFeeData
    /\ gasSettings = NoGasSettings
    /\ slippagePercent \in SlippagePercents
    /\ answer = NoAnswer
    /\ retries = DefaultRetries
    /\ networkFees = [isNull |-> TRUE, high |-> 0]
    /\ scamInput = NoInput
    /\ scamResult = NoResult
    /\ quoteResponse = NoQuote
    /\ quoteTimestamp = 0
    /\ now = 0
    /\ NoSession

\* const expectedOut = await getQuote(router, amountInWei, path)
SlipGetQuote ==
    /\ venue = "slippage" /\ pc = "slip_quote"
    /\ \E out \in ExpectedOuts : quoteResponse' = out
    /\ pc' = "slip_apply"
    /\ UNCHANGED << Args, exitCode, networkFees, scamInput, scamResult,
                    quoteTimestamp, now, Session >>

\* const amountOutMin = applySlippage(expectedOut, config.slippagePercent)
SlipApply ==
    /\ venue = "slippage" /\ pc = "slip_apply"
    /\ result' = applySlippage(quoteResponse, slippagePercent)
    /\ pc' = "slip_done"
    /\ UNCHANGED << Args, exitCode, networkFees, scamInput, scamResult,
                    quoteResponse, quoteTimestamp, now, attempt, currentFee,
                    postTry, builds, txs, timer, swapErr >>

NextSlippage == SlipGetQuote \/ SlipApply

SpecSlippage == InitSlippage /\ [][NextSlippage]_vars

----------------------------------------------------------------------------
(* parseToken2022Extensions on buffers that end in an incomplete entry      *)

\* complete entries in front of the end of the buffer, as [type, data]
ParsePrefixes ==
    { << >>,
      << [type |-> EXT_NON_TRANSFERABLE, data |-> << >>] >>,
      << [type |-> EXT_TRANSFER_FEE_CONFIG, data |-> FeePayload(500)] >>,
      << [type |-> EXT_PERMANENT_DELEGATE, data |-> Bytes(7, 32)] >>,
      << [type |-> EXT_TRANSFER_FEE_CONFIG, data |-> FeePayload(500)],
         [type |-> EXT_TRANSFER_HOOK, data |-> Bytes(7, 64)] >> }

RECURSIVE Tlv(_)
\* the bytes of a list of entries
Tlv(entries) ==
    IF entries = << >> THEN << >>
    ELSE ExtEntry(entries[1].type, entries[1].data) \o Tlv(Tail(entries))

\* what follows the complete entries: nothing, fewer than four bytes, or an
\* entry header declaring more bytes than are left
ParseTrailers ==
    { Bytes(9, k) : k \in 0..3 }
    \cup { TruncatedEntry(t, d[1], d[2]) :
             t \in {EXT_TRANSFER_FEE_CONFIG, EXT_PERMANENT_DELEGATE},
             d \in { << 1, 0 >>, << 32, 0 >>, << 32, 1 >>, << 32, 31 >>,
                     << 108, 107 >>, << 300, 0 >>, << 300, 299 >>,
                     << 65535, 0 >>, << 65535, 1 >> } }

ParseBuffers ==
    { MintAccount(a, Tlv(p) \o t) : a \in {1, 2}, p \in ParsePrefixes, t \in ParseTrailers }

InitParse ==
    /\ venue = "parse" /\ pc = "parse_call"
    /\ exitCode = NoExit
    /\ skipConfirm = FALSE
    /\ isDryRun = FALSE
    /\ isTTY = FALSE
    /\ priorityFee = Auto
    /\ buyRetries = 0
    /\ feeData = NoFeeData
    /\ gasSettings = NoGasSettings
    /\ slippagePercent = DefaultSlippage
    /\ answer = NoAnswer
    /\ retries = DefaultRetries
    /\ networkFees = [isNull |-> TRUE, high |-> 0]
    /\ \E data \in ParseBuffers :
          scamInput = [NoInput EXCEPT !.tokenInfo.isToken2022 = TRUE,
                                      !.tokenInfo.rawData = data]
    /\ scamResult = NoResult
    /\ quoteResponse = NoQuote
    /\ quoteTimestamp = 0
    /\ now = 0
    /\ NoSession

\* const extensions = parseToken2022Extensions(tokenInfo._rawData)
ParseExtensions ==
    /\ venue = "parse" /\ pc = "parse_call"
    /\ result' = parseToken2022Extensions(scamInput.tokenInfo.rawData)
    /\ pc' = "parse_done"
    /\ UNCHANGED << Args, exitCode, networkFees, scamInput, scamResult,
                    quoteResponse, quoteTimestamp, now, attempt, currentFee,
                    postTry, builds, txs, timer, swapErr >>

NextParse == ParseExtensions

SpecParse == InitParse /\ [][NextParse]_vars

----------------------------------------------------------------------------
(* withRetry(fn, opts): postTry is the loop variable attempt, builds the    *)
(* settled calls of fn in order, result the value withRetry resolved with,  *)
(* swapErr the error it rejected with.                                      *)

\* the value undefined
Undefined == [k |-> "undefined"]

\* the largest number passed as retries
MaxRetries == 3

\* opts.retries: absent, a number (also negative or NaN), the string of a
\* number, or null
RetriesOptions ==
    { Undefined, NaN, [k |-> "null"], [k |-> "str", v |-> 2] }
    \cup { Num(n) : n \in -1..MaxRetries }

\* const { retries = 3 } = opts: the default replaces undefined only
DestructuredRetries(option) ==
    IF option = Undefined THEN DefaultRetries ELSE option

\* attempt <= retries: the operand is converted to a number, null to 0, and
\* a comparison with NaN is false
LoopTest(attemptNo, option) ==
    CASE option.k = "num" -> attemptNo <= option.v
      [] option.k = "str" -> attemptNo <= option.v
      [] option.k = "null" -> attemptNo <= 0
      [] OTHER -> FALSE

\* attempt === retries: no conversion
IsLastAttempt(attemptNo, option) ==
    option.k = "num" /\ attemptNo = option.v

\* what fn resolved with at its n-th call
Response(n) == [k |-> "response", call |-> n]

InitRetry ==
    /\ venue = "retry" /\ pc = "wr_loop"
    /\ exitCode = NoExit
    /\ skipConfirm = FALSE
    /\ isDryRun = FALSE
    /\ isTTY = FALSE
    /\ priorityFee = Auto
    /\ buyRetries = 0
    /\ feeData = NoFeeData
    /\ gasSettings = NoGasSettings
    /\ slippagePercent = DefaultSlippage
    /\ answer = NoAnswer
    /\ retries \in RetriesOptions
    /\ networkFees = [isNull |-> TRUE, high |-> 0]
    /\ scamInput = NoInput
    /\ scamResult = NoResult
    /\ quoteResponse = NoQuote
    /\ quoteTimestamp = 0
    /\ now = 0
    /\ attempt = 0
    /\ currentFee = Auto
    /\ postTry = 0
    /\ builds = << >>
    /\ txs = << >>
    /\ timer = FALSE
    /\ swapErr = NoError
    /\ result = Undefined

RetryFixed == << Args, exitCode, networkFees, scamInput, scamResult, quoteResponse,
                 quoteTimestamp, now, attempt, currentFee, txs, timer >>

\* the loop test holds: fn() is called
WrCall ==
    /\ venue = "retry" /\ pc = "wr_loop"
    /\ LoopTest(postTry, DestructuredRetries(retries))
    /\ pc' = "wr_fn"
    /\ UNCHANGED << RetryFixed, postTry, builds, swapErr, result >>

\* the loop test fails: the function body ends without return or throw
WrFallOff ==
    /\ venue = "retry" /\ pc = "wr_loop"
    /\ ~LoopTest(postTry, DestructuredRetries(retries))
    /\ result' = Undefined
    /\ pc' = "wr_resolved"
    /\ UNCHANGED << RetryFixed, postTry, builds, swapErr >>

\* return await fn()
WrFnResolves ==
    /\ venue = "retry" /\ pc = "wr_fn"
    /\ builds' = Append(builds, [attempt |-> postTry, ok |-> TRUE, err |-> NoError])
    /\ result' = Response(Len(builds) + 1)
    /\ pc' = "wr_resolved"
    /\ UNCHANGED << RetryFixed, postTry, swapErr >>

\* fn() rejects: the catch block, with the sleep before the next round
WrFnRejects ==
    /\ venue = "retry" /\ pc = "wr_fn"
    /\ \E e \in HttpErrors :
          /\ builds' = Append(builds, [attempt |-> postTry, ok |-> FALSE, err |-> e])
          /\ IF ~IsRetryableHttp(e)
                \/ IsLastAttempt(postTry, DestructuredRetries(retries))
             THEN /\ swapErr' = e
                  /\ pc' = "wr_rejected"
                  /\ postTry' = postTry
             ELSE /\ swapErr' = swapErr
                  /\ pc' = "wr_loop"
                  /\ postTry' = postTry + 1
    /\ UNCHANGED << RetryFixed, result >>

NextRetry == WrCall \/ WrFallOff \/ WrFnResolves \/ WrFnRejects

SpecRetry == InitRetry /\ [][NextRetry]_vars

----------------------------------------------------------------------------
(* Properties of the swap executor                                          *)

\* C1: in executeSwap an attempt whose confirmation resolves with an on-chain
\* error is never followed by another attempt, whatever the error value: its
\* transaction is the last one of the session and the error is thrown to the
\* caller.
C1_OnChainErrorEndsSession ==
    \A i \in 1..Len(txs) :
        txs[i].status = "failed" =>
            /\ attempt = txs[i].attempt
            /\ pc = "exit"
            /\ exitCode = EXIT_SWAP_ERROR
            /\ swapErr = OnChainFailure(txs[i].id, txs[i].err)

\* C2: retries are strictly sequential: no later attempt is built or
\* submitted while the transaction of an earlier attempt can still be
\* confirmed on chain.
C2_RetriesSequential ==
    \A i \in 1..Len(txs) :
        txs[i].status = "pending" => txs[i].attempt = attempt

\* C3: no swap transaction is built from a quote older than 10 seconds: at
\* every build the quote in use is at most QUOTE_MAX_AGE_MS old.
C3_NoBuildFromStaleQuote ==
    \A i \in 1..Len(builds) : builds[i].quoteAge <= QUOTE_MAX_AGE_MS

\* C5 as stated: with a positive numeric starting fee F, the fee sent in
\* attempt k is ceil(F * 1.5^(k-1)), k = 1, 2, 3.
C5_FeeClosedForm ==
    (priorityFee.k = "str" /\ priorityFee.v > 0) =>
        \A k \in 1..Len(builds) :
            builds[k].fee =
                Num((priorityFee.v * 3^(k-1) + 2^(k-1) - 1) \div 2^(k-1))

\* C5 (amended): with a positive numeric starting fee F, attempt 1 sends F
\* and every later attempt sends the least integer that is at least 1.5
\* times the fee of the attempt before it.
C5_FeeEscalatesStepwise ==
    (priorityFee.k = "str" /\ priorityFee.v > 0) =>
        /\ Len(builds) >= 1 => builds[1].fee = Num(priorityFee.v)
        /\ \A k \in 1..(Len(builds) - 1) :
              /\ builds[k+1].fee.k = "num"
              /\ 2 * builds[k+1].fee.v >= 3 * builds[k].fee.v
              /\ 2 * (builds[k+1].fee.v - 1) < 3 * builds[k].fee.v

\* three attempts were made from the starting fee 3: the fees are 3, 5, 8
C5_ThreeAttemptsFromThree ==
    /\ priorityFee = [k |-> "str", v |-> 3]
    /\ Len(builds) = 3
    /\ builds[2].fee = Num(5)
    /\ builds[3].fee = Num(8)

C11_AtMostThreeAttemptsAndEnds ==
    /\ [](/\ attempt \in 0..SWAP_MAX_RETRIES
          /\ Len(builds) <= SWAP_MAX_RETRIES + 1
          /\ Len(txs) <= SWAP_MAX_RETRIES + 1
          /\ \A i \in 1..Len(builds) : builds[i].attempt = i - 1
          /\ (pc = "exit") <=> (exitCode # NoExit)
          /\ (exitCode = EXIT_SUCCESS) <=> (result # 0)
          /\ result # 0 =>
                /\ result = txs[Len(txs)].id
                /\ txs[Len(txs)].attempt = attempt
                /\ txs[Len(txs)].status = "confirmed"
          /\ (swapErr # NoError /\ ~IsRetryable(swapErr)) =>
                (pc = "exit" /\ exitCode = EXIT_SWAP_ERROR)
          /\ (exitCode = EXIT_SWAP_ERROR /\ IsRetryable(swapErr)) =>
                (attempt = SWAP_MAX_RETRIES /\ Len(builds) = SWAP_MAX_RETRIES + 1)
          /\ exitCode \in {NoExit, EXIT_SUCCESS, EXIT_SWAP_ERROR})
    /\ <>(pc = "exit")

\* all three attempts timed out and the timeout of the third was thrown
C11_ThirdTimeoutThrown ==
    /\ pc = "exit"
    /\ exitCode = EXIT_SWAP_ERROR
    /\ attempt = SWAP_MAX_RETRIES
    /\ swapErr = TimeoutError
    /\ Len(txs) = 3
    /\ \A i \in 1..3 : txs[i].attempt = i - 1

\* C12: after a retryable failure, when the fee setting of the failed attempt
\* is "auto", unset or not a valid positive number (so the swap body carries
\* "auto" or no fee), the next attempt's fee is the network fee estimate the
\* caller supplied, or DEFAULT_RETRY_FEE_LAMPORTS (100000) without one.
C12_AutoFeeBecomesEstimate ==
    \A i \in 1..(Len(builds) - 1) :
        builds[i].fee.k \in {"auto", "unset"} =>
            builds[i+1].fee =
                Num(IF NetworkFeeEstimate(networkFees) > 0
                    THEN NetworkFeeEstimate(networkFees)
                    ELSE DEFAULT_RETRY_FEE_LAMPORTS)

\* C13: the confirmation timeout timer is pending only while the
\* confirmation race is awaited: once sendSwapTransaction has returned or
\* thrown (confirmation, on-chain failure, timeout, rejection of the
\* confirmation call) no timer is left.
C13_TimerCancelledOnEveryPath ==
    /\ timer => pc = "swap_confirm"
    /\ pc = "swap_confirm" => timer

\* the confirmation call of the first attempt was rejected and the error
\* thrown to the caller
C13_RejectionLeavesNoTimer ==
    /\ pc = "exit"
    /\ attempt = 0
    /\ Len(txs) = 1
    /\ txs[1].status = "pending"
    /\ swapErr = Err(<< "429", "Too", "Many", "Requests" >>)
    /\ ~timer

\* C14: when the first attempt times out waiting for the confirmation and
\* the second attempt confirms, executeSwap returns the id of the second
\* attempt's transaction, and the second attempt's fee is a positive number
\* of lamports, greater than the first attempt's when that was a number
\* ("auto" leaves the amount to Jupiter; no fee counts as 0).
C14_SecondAttemptPaysMore ==
    (/\ pc = "exit"
     /\ exitCode = EXIT_SUCCESS
     /\ attempt = 1
     /\ swapErr = TimeoutError)
    => /\ Len(txs) = 2
       /\ result = txs[2].id
       /\ txs[2].attempt = 1
       /\ result # txs[1].id
       /\ txs[2].fee.k = "num"
       /\ txs[2].fee.v > 0
       /\ txs[1].fee.k = "num" => txs[2].fee.v > txs[1].fee.v

----------------------------------------------------------------------------
(* Properties of main()                                                     *)

C8_PriceDropAborts ==
    [][(/\ pc = "requote"
        /\ ~skipConfirm
        /\ quoteResponse' # quoteResponse
        /\ (quoteResponse - quoteResponse') * 100 > PRICE_ABORT_PCT * quoteResponse)
       => (pc' = "exit" /\ exitCode' = EXIT_PRICE_DEVIATION /\ builds' = << >>)]_vars

\* C16: the PancakeSwap executeBuy calls the router's swap at most
\* BUY_RETRIES + 1 times, calls it again only after the call before it threw
\* or the wait for its receipt threw, and never after a receipt that shows a
\* revert: a reverted transaction, like a confirmed one, is the last.
C16_ResendOnlyAfterFailure ==
    venue = "bsc" =>
        /\ attempt <= buyRetries + 1
        /\ Len(txs) <= buyRetries + 1
        /\ \A i \in 1..Len(txs) :
              /\ txs[i].attempt \in 1..(buyRetries + 1)
              /\ txs[i].attempt <= attempt
              /\ txs[i].status \in {"failed", "confirmed"} =>
                    /\ i = Len(txs)
                    /\ txs[i].attempt = attempt
                    /\ pc = "exit"
                    /\ exitCode = IF txs[i].status = "failed"
                                  THEN EXIT_SWAP_ERROR ELSE EXIT_SUCCESS
              /\ i < Len(txs) => txs[i].attempt < txs[i+1].attempt

\* a transaction reverted in the first of three allowed attempts
C16_RevertNotResent ==
    /\ venue = "bsc"
    /\ buyRetries = 2
    /\ Len(txs) = 1
    /\ txs[1].status = "failed"
    /\ attempt = 1
    /\ pc = "exit"

\* C17: in the 0x executeBuy, with BUY_RETRIES = n for every n = 0, 1, 2, ...
\* a failing quote request is repeated at most n times: the quote endpoint
\* is called at most n + 1 times.
C17_QuoteRepeatedAtMostBuyRetries ==
    venue = "zerox" => postTry + 1 <= buyRetries + 1

\* C18: in the BSC one-shot flow, a token that the anti-scam checks rate
\* critical makes the process exit with code 10 (SCAM_DETECTED).
C18_BscCriticalExitsScamDetected ==
    (venue = "bsc" /\ scamResult.riskLevel = "critical") =>
        (pc = "exit" /\ exitCode = EXIT_SCAM_DETECTED)

\* C19: the gas price attached to the BSC swap transaction never exceeds
\* MAX_GAS_PRICE_GWEI: whenever the network gas price is above the cap, the
\* swap is sent with the cap as its gas price.
C19_GasPriceCapped ==
    venue = "bsc" =>
        \A i \in 1..Len(txs) :
            /\ txs[i].fee.k = "num" => txs[i].fee.v <= ParseGwei(MAX_GAS_PRICE_GWEI)
            /\ feeData.network > ParseGwei(MAX_GAS_PRICE_GWEI) =>
                  txs[i].fee = Num(ParseGwei(MAX_GAS_PRICE_GWEI))

\* C20: with --dry-run the Solana flow never builds, signs or submits a swap
\* transaction, on any path: the run ends before the swap step, and never
\* asks for a confirmation or a fresh quote either.
C20_DryRunNeverSwaps ==
    (venue = "solana" /\ isDryRun) =>
        /\ builds = << >>
        /\ txs = << >>
        /\ result = 0
        /\ swapErr = NoError
        /\ pc \in {"warmup", "network", "fees", "validate", "pools", "quote",
                   "antiscam", "exit"}
        /\ exitCode # EXIT_SWAP_ERROR

\* a dry run with --yes went through the anti-scam checks on a token rated
\* critical and ended with SUCCESS
C20_DryRunCompleted ==
    /\ venue = "solana"
    /\ isDryRun
    /\ skipConfirm
    /\ scamResult.riskLevel = "critical"
    /\ now > QUOTE_MAX_AGE_MS
    /\ pc = "exit"
    /\ exitCode = EXIT_SUCCESS

----------------------------------------------------------------------------
(* Properties of runAntiScamChecks                                          *)

\* the severity the specification gives the finding of each check:
\* 3 critical, 2 high, 1 medium
FindingSeverity(w) ==
    CASE w[1] = "HONEYPOT" -> 3
      [] w[1] = "Extreme" -> 3
      [] w[1] = "EXTREME" -> 3
      [] w = DelegateWarning -> 3
      [] w = NonTransferableWarning -> 3
      [] w = FreezeWarning -> 2
      [] w = HookWarning -> 2
      [] w[1] = "High" -> 2
      [] OTHER -> 1

LevelSeverity(riskLevel) ==
    CASE riskLevel = "critical" -> 3
      [] riskLevel = "high" -> 2
      [] riskLevel = "medium" -> 1
      [] OTHER -> 0

\* C4: the risk level is a monotonic step function of the round-trip loss
\* the honeypot check computes: above 50% the level is critical, above 20%
\* and up to 50% it is at least high, and at 20% or less the honeypot check
\* adds no finding.
C4_LossStepFunction ==
    (pc = "done" /\ scamResult.honeypotRan /\ scamResult.honeypot.canSell) =>
        LET loss == scamResult.honeypot.roundTripLossPct
        IN  /\ loss > 5000 => scamResult.riskLevel = "critical"
            /\ (loss > 2000 /\ loss <= 5000) =>
                  scamResult.riskLevel \in {"high", "critical"}
            /\ loss <= 2000 => HoneypotWarnings(scamResult.honeypot) = << >>

\* C9: when the sell simulation finds no route or returns a sell amount of
\* zero, the result has a HONEYPOT finding and the risk level critical.
C9_NoRouteOrZeroIsHoneypot ==
    (/\ pc = "done"
     /\ scamInput.hasQuote
     /\ \/ scamInput.sell.kind = "nodata"
        \/ /\ scamInput.sell.kind = "data"
           /\ \/ scamInput.sell.outAmount.t = "undef"
              \/ /\ scamInput.sell.outAmount.t \in {"str", "num"}
                 /\ scamInput.sell.outAmount.v = 0)
    => /\ \E i \in 1..Len(scamResult.warnings) :
             scamResult.warnings[i][1] = "HONEYPOT"
       /\ scamResult.riskLevel = "critical"

\* C10: the risk level is the highest severity among the findings reported
\* (critical above high above medium), and it is low exactly when there is
\* no finding.
C10_LevelIsHighestSeverity ==
    pc = "done" =>
        LET warnings == scamResult.warnings
        IN  /\ (scamResult.riskLevel = "low") <=> (warnings = << >>)
            /\ \A i \in 1..Len(warnings) :
                  FindingSeverity(warnings[i]) <= LevelSeverity(scamResult.riskLevel)
            /\ warnings # << >> =>
                  \E i \in 1..Len(warnings) :
                      FindingSeverity(warnings[i]) = LevelSeverity(scamResult.riskLevel)

----------------------------------------------------------------------------
(* Properties of applySlippage                                              *)

\* C21: the minimum output sent with the swap is
\* floor(expectedOut * (10000 - bps) / 10000), that is expectedOut less the
\* slippage share rounded up, and an expected output of 1,000,000 at 550 bps
\* gives exactly 945,000.
C21_MinimumOutputIsFloor ==
    (venue = "slippage" /\ pc = "slip_done") =>
        LET bps == RoundTimes100(slippagePercent)
        IN  /\ result = quoteResponse - ((quoteResponse * bps + 9999) \div 10000)
            /\ (quoteResponse = 1000000 /\ bps = 550) => result = 945000

\* 1,000,000 at 5.5 percent came out as 945,000
C21_MillionAtFiveAndAHalf ==
    /\ venue = "slippage" /\ pc = "slip_done"
    /\ quoteResponse = 1000000 /\ slippagePercent = 5500
    /\ result = 945000

----------------------------------------------------------------------------
(* Properties of the anti-scam engine, continued                            *)

\* C22: when the sell-quote request of the honeypot check fails,
\* runAntiScamChecks still returns: the failure is the last finding
\* ("HONEYPOT RISK: Sell simulation failed: ..."), details.honeypot says the
\* token cannot be sold, and the findings before it are exactly those the
\* other checks give for the same token.
C22_SellFailureBecomesFinding ==
    (venue = "risk" /\ pc = "done" /\ scamInput.hasQuote
       /\ scamInput.sell.kind = "throw") =>
        LET w == scamResult.warnings
            others == runAntiScamChecks([scamInput EXCEPT !.hasQuote = FALSE])
        IN  /\ scamResult.riskLevel = "critical"
            /\ ~scamResult.honeypot.canSell
            /\ Len(w) >= 1
            /\ w[Len(w)] = << "HONEYPOT", "RISK:", "Sell", "simulation", "failed:" >>
                              \o scamInput.sell.message
            /\ SubSeq(w, 1, Len(w) - 1) = others.warnings

\* the sell request failed for a token with other findings
C22_SellFailedWithOtherFindings ==
    /\ venue = "risk" /\ pc = "done" /\ scamInput.hasQuote
    /\ scamInput.sell.kind = "throw"
    /\ scamInput.tokenInfo.hasFreezeAuthority
    /\ Len(scamResult.warnings) >= 3
    /\ Includes(scamResult.warnings[1], << "Transfer", "fee:" >>)

\* C23: a Token-2022 mint with a TransferFeeConfig extension of bps basis
\* points gets, for 0 < bps < 1000, the finding "Transfer fee: bps ..." and no
\* EXTREME finding, which alone makes the level medium; for bps >= 1000 the
\* level is critical.
C23_TransferFeeLevels ==
    (venue = "risk" /\ pc = "done" /\ scamInput.tokenInfo.isToken2022) =>
        \A bps \in {500, 999, 1000, 2500} :
            (\E rest \in { << >>, ExtEntry(EXT_TRANSFER_HOOK, Bytes(7, 64)),
                           TruncatedEntry(EXT_PERMANENT_DELEGATE, 32, 10) } :
                scamInput.tokenInfo.rawData =
                    MintAccount(2, ExtEntry(EXT_TRANSFER_FEE_CONFIG, FeePayload(bps))
                                   \o rest))
            => LET w == scamResult.warnings
               IN  /\ Len(w) >= 1 /\ w[1][1] = "Transfer" /\ w[1][2] = "fee:"
                   /\ w[1][3] = ToString(bps)
                   /\ bps < 1000 =>
                        /\ ~SomeIncludes(w, << "EXTREME" >>)
                        /\ FindingSeverity(w[1]) = 1
                        /\ Len(w) = 1 => scamResult.riskLevel = "medium"
                   /\ bps >= 1000 => scamResult.riskLevel = "critical"

\* a fee of exactly 10% on an otherwise clean token made the level critical
C23_TenPercentFeeIsCritical ==
    /\ venue = "risk" /\ pc = "done"
    /\ scamInput.tokenInfo.isToken2022
    /\ scamInput.tokenInfo.rawData =
          MintAccount(2, ExtEntry(EXT_TRANSFER_FEE_CONFIG, FeePayload(1000)))
    /\ ~scamInput.tokenInfo.hasFreezeAuthority
    /\ ~scamInput.hasQuote
    /\ Len(scamResult.warnings) = 2
    /\ scamResult.riskLevel = "critical"

\* C24: on a buffer whose last entry declares a length that runs past the
\* end (or whose last bytes are too few for an entry header),
\* parseToken2022Extensions returns exactly the complete entries in front of
\* it, each with its type and its bytes.
C24_TruncatedTailIsDropped ==
    (venue = "parse" /\ pc = "parse_done") =>
        \A p \in ParsePrefixes, t \in ParseTrailers :
            scamInput.tokenInfo.rawData = MintAccount(2, Tlv(p) \o t)
            => result = p

\* a complete transfer-fee entry followed by a permanent-delegate entry one
\* byte short
C24_OneByteShort ==
    /\ venue = "parse" /\ pc = "parse_done"
    /\ scamInput.tokenInfo.rawData =
          MintAccount(2, ExtEntry(EXT_TRANSFER_FEE_CONFIG, FeePayload(500))
                         \o TruncatedEntry(EXT_PERMANENT_DELEGATE, 32, 31))
    /\ Len(result) = 1
    /\ result[1].type = EXT_TRANSFER_FEE_CONFIG
    /\ Len(result[1].data) = 108

----------------------------------------------------------------------------
(* Properties of withRetry                                                  *)

\* C25: withRetry calls fn again only after a call that failed with a
\* retryable error (429, 5xx or a listed network code), makes at most
\* retries + 1 calls, and after a non-retryable error makes no further call
\* and rejects with that error, so that a first call failing that way is the
\* only one.
C25_RetriesOnlyRetryable ==
    venue = "retry" =>
        LET calls == Len(builds) + (IF pc = "wr_fn" THEN 1 ELSE 0)
            opt == DestructuredRetries(retries)
        IN  /\ \A i \in 1..Len(builds) :
                  i < calls => (~builds[i].ok /\ IsRetryableHttp(builds[i].err))
            /\ (opt.k = "num" /\ opt.v >= 0) => calls <= opt.v + 1
            /\ \A i \in 1..Len(builds) :
                  (~builds[i].ok
                     /\ builds[i].err.status \notin {429} \cup 500..599
                     /\ builds[i].err.code \notin RETRYABLE_CODES)
                  => (i = calls /\ pc = "wr_rejected" /\ swapErr = builds[i].err)

\* with retries 2, fn was called three times and the last error rethrown
C25_ThreeCallsThenRethrown ==
    /\ venue = "retry" /\ pc = "wr_rejected"
    /\ retries = Num(2)
    /\ Len(builds) = 3
    /\ swapErr = builds[3].err
    /\ swapErr.status = 503

\* C30: for every value of the retries option, withRetry resolves only with
\* a value that a call of fn returned (and rejects only with an error that
\* fn threw).
C30_ResolvesOnlyWithFnValue ==
    venue = "retry" =>
        /\ pc = "wr_resolved" =>
              /\ Len(builds) >= 1
              /\ builds[Len(builds)].ok
              /\ result = Response(Len(builds))
        /\ pc = "wr_rejected" =>
              /\ Len(builds) >= 1
              /\ ~builds[Len(builds)].ok
              /\ swapErr = builds[Len(builds)].err

----------------------------------------------------------------------------
(* Properties of main(), continued                                          *)

\* the steps of the Solana main() before the swap, in the order of the code
MainSteps == << "warmup", "network", "fees", "validate", "pools", "quote", "antiscam" >>

\* the place of a position of main() in MainSteps (the mainnet prompt belongs
\* to the network step), 0 for the positions after the anti-scam checks
StepRank(p) ==
    IF p = "mainnet_confirm" THEN 2
    ELSE IF \E i \in 1..Len(MainSteps) : MainSteps[i] = p
    THEN CHOOSE i \in 1..Len(MainSteps) : MainSteps[i] = p
    ELSE 0

\* C26: in the Solana flow main() goes through RPC warmup, fee estimate,
\* token validation, quote and anti-scam checks one after the other in that
\* order, never skipping or repeating one, and executeSwap is first entered
\* only from the end of the anti-scam checks, the confirmation prompt or the
\* re-quote, with the quote and the anti-scam result there.
C26_StepsInFixedOrder ==
    [][venue = "solana" =>
        /\ (pc' # pc /\ StepRank(pc') # 0) =>
              /\ StepRank(pc) # 0
              /\ \/ StepRank(pc') = StepRank(pc) + 1
                 \/ pc = "network" /\ pc' = "mainnet_confirm"
        /\ (pc' # pc /\ StepRank(pc) # 0 /\ StepRank(pc) < Len(MainSteps)) =>
              (pc' = "exit" \/ StepRank(pc') # 0)
        /\ (pc' = "confirm" /\ pc # "confirm") => pc = "antiscam"
        /\ (pc' = "requote" /\ pc # "requote") => pc \in {"antiscam", "confirm"}
        /\ (builds = << >> /\ builds' # << >>) =>
              /\ pc \in {"antiscam", "confirm", "requote"}
              /\ scamResult' # NoResult
              /\ quoteResponse' # NoQuote
    ]_vars

\* executeSwap has been entered after the anti-scam checks
C26_SwapEnteredAfterChecks ==
    /\ venue = "solana" /\ pc = "swap_build"
    /\ Len(builds) = 1
    /\ scamResult # NoResult
    /\ quoteResponse # NoQuote

\* C27: the PancakeSwap executeBuy never broadcasts a swap transaction while
\* one it broadcast earlier in the same call may still be mined: every
\* transaction but the last has a receipt.
C27_NoBroadcastWhilePending ==
    venue = "bsc" =>
        \A i \in 1..Len(txs) :
            i < Len(txs) => txs[i].status \in {"confirmed", "failed"}

\* C28: in the Solana flow outside dry-run no swap is built or submitted
\* unless --yes was given or the line typed at the confirmation prompt is y
\* or yes (in any case, with blanks around it).
C28_NoSwapWithoutYes ==
    (venue = "solana" /\ ~isDryRun /\ (builds # << >> \/ txs # << >>)) =>
        \/ skipConfirm
        \/ answer \in { << "y" >>, << " ", "Y", "E", "S", " " >> }

\* a swap was submitted after the user typed " YES "
C28_SubmittedAfterYes ==
    /\ venue = "solana" /\ ~isDryRun /\ ~skipConfirm
    /\ answer = << " ", "Y", "E", "S", " " >>
    /\ txs # << >>

\* C29: the honeypot check classifies by the exact ratio of the amounts: a
\* simulated sell returning strictly less than 50% of the lamports spent is
\* treated as a loss above 50% (the extreme-loss finding), and one returning
\* strictly less than 80% as a loss above 20% (a round-trip finding).
C29_ThresholdsByExactRatio ==
    (/\ venue = "risk" /\ pc = "done"
     /\ scamResult.honeypotRan /\ scamResult.honeypot.canSell
     /\ scamInput.amountLamports > 0
     /\ scamInput.sell.outAmount.t \in {"str", "num"}) =>
        LET spent == scamInput.amountLamports
            back == scamInput.sell.outAmount.v
            finding == scamResult.honeypot.warning
        IN  /\ 2 * back < spent => (finding # << >> /\ finding[1] = "Extreme")
            /\ 5 * back < 4 * spent => finding # << >>

====
